---- MODULE Spec2Model ----
(***************************************************************************)
(* Model of streamlit_app.py: the Online Shopper Purchase Predictor.       *)
(*                                                                         *)
(* The program is a Streamlit script.  Every user interaction (a button    *)
(* press, a widget change, a plain rerun) executes the whole script once,  *)
(* top to bottom.  What survives from one run to the next is:              *)
(*   - the model file on disk and the st.cache_resource entry (process),   *)
(*   - st.session_state.scenario and the widget values (session),          *)
(*   - what the last run rendered (the page the user acts on).             *)
(* One action of the model is one user interaction followed by the whole   *)
(* script run it triggers.                                                 *)
(*                                                                         *)
(* Units.  Probabilities are integers in percent (prob = 82 is the float   *)
(* 0.82, so prob * 100 of the code is prob here and 0.75 is 75).  Bounce   *)
(* and exit rates are integers in hundredths (1 is 0.01, 90 is 0.9).       *)
(* Engagement_Ratio is kept as the pair numerator / denominator.           *)
(* Message texts are the code's, without their leading emoji.              *)
(***************************************************************************)
EXTENDS Integers, Sequences, FiniteSets, TLC

VARIABLES
    file_exists,       \* os.path.exists(MODEL_PATH)
    model_cache,       \* the st.cache_resource entry of load_model: "empty" or "model"
    loads,             \* number of classifier instances joblib.load has created
    session_scenario,  \* st.session_state.scenario, Unset when the key is absent
    last_pressed,      \* the quick-example button the user pressed most recently
    widgets,           \* the values the seven input widgets hold
    errors,            \* validate_inputs(...)[0] of the last run
    warnings,          \* validate_inputs(...)[1] of the last run
    out,               \* the elements the last run rendered
    run_log,           \* the model-related calls the last run made, in order
    exception,         \* the uncaught exception that ended the last run, or "none"
    df,                \* the Feature Record the last run built, or NoRecord
    prob,              \* the probability the last run obtained, or NoProb
    banner,            \* the result banner the last run showed, or "none"
    whatif             \* the what-if lines the last run showed: <<offset, new_prob>>

vars == <<file_exists, model_cache, loads, session_scenario, last_pressed, widgets,
          errors, warnings, out, run_log, exception, df, prob, banner, whatif>>

-----------------------------------------------------------------------------
(* Bounds of the model *)

\* joblib.load is not modelled beyond this many created instances.
MaxLoads == 3

\* Values the user gives the two numeric widgets (with every branch threshold
\* of the script and both ends of each range).
PageSamples == {0, 2, 3, 5, 6, 10, 14, 15, 25, 100}
TimeSamples == {0, 5, 10, 60, 300, 595, 600, 1200, 3600}

\* Values handed to validate_inputs directly, outside the widget ranges too.
RawPageSamples == PageSamples \cup {-1, 101}
RawTimeSamples == TimeSamples \cup {-5, 3605}

\* Probabilities (percent) the classifier returns.
ProbSamples == {0, 10, 24, 25, 30, 49, 50, 60, 74, 75, 82, 100}

\* Every session below offers the user every button and every widget of the
\* page.  A session that follows one group of widgets through all its sampled
\* values gives the other widgets these fewer values (next to the values the
\* quick examples put into them), so that the sessions stay explorable.
FewPages == {14, 15, 100}
FewTimes == {595, 600}
OnePage == {100}
OneTime == {595}
OneProb == {82}

\* The entries of a select box at the given positions (1-based).
Picked(options, positions) ==
    {options[i] : i \in positions \cap (1..Len(options))}

-----------------------------------------------------------------------------
(* Values standing for Python's absent values *)

Unset == "<unset>"
NoRecord == [absent |-> TRUE]
NoProb == 0 - 1

Min(a, b) == IF a < b THEN a ELSE b

-----------------------------------------------------------------------------
(* Model loading: lines 13-28 *)

\* load_model without a working cache: the body runs on every call.
cache_resource_off(cache) == FALSE

\* @st.cache_resource: a stored return value is handed back without running the body.
cache_resource_hit(cache) == cache = "model"

\* The except branch without its st.stop().
on_load_error_nostop == [shown |-> "load_error", stop |-> FALSE]

\* except Exception: st.error(...); st.stop()
on_load_error == [shown |-> "load_error", stop |-> TRUE]

\* load_model().  exists: the file is on disk; download: what gdown.download does
\* ("saved" writes the file, "none" returns without a file, "raise" raises);
\* load_ok: joblib.load succeeds on an existing file.
load_model(cache, exists, download, load_ok) ==
    IF cache_resource_hit(cache)
    THEN [ok |-> TRUE, cache |-> cache, exists |-> exists, log |-> <<>>, created |-> 0]
    ELSE LET absent == ~exists
             raised == absent /\ download = "raise"
             exists2 == IF absent THEN download = "saved" ELSE exists
             ok == ~raised /\ exists2 /\ load_ok
             log == (IF absent THEN <<"gdown.download">> ELSE <<>>)
                    \o (IF raised THEN <<>> ELSE <<"joblib.load">>)
         IN [ok |-> ok,
             cache |-> IF ok THEN "model" ELSE cache,
             exists |-> exists2,
             log |-> log,
             created |-> IF ok THEN 1 ELSE 0]

-----------------------------------------------------------------------------
(* Input validation: lines 57-78 *)

ErrPages == "Product pages must be between 0-100"
ErrTime == "Browsing time must be between 0-3600 seconds"
WarnNoPages == "Unusual: Checkout visited but no product pages viewed"
WarnQuick == "Very quick checkout (under 1 minute)"
WarnFewPages == "High intent but few pages viewed"
WarnBot == "Too many pages in too little time (possible bot)"

Cond(c, s) == IF c THEN <<s>> ELSE <<>>

\* validate_inputs without the upper range checks.
validate_inputs_lax(pages, time, checkout, intent) ==
    [errors |-> Cond(pages < 0, ErrPages) \o Cond(time < 0, ErrTime),
     warnings |-> Cond(checkout = "Yes" /\ pages = 0, WarnNoPages)
                  \o Cond(checkout = "Yes" /\ time < 60, WarnQuick)
                  \o Cond(intent \in {"High", "Very High"} /\ pages < 3, WarnFewPages)
                  \o Cond(time < 10 /\ pages > 5, WarnBot)]

\* validate_inputs(pages, time, checkout, intent) -> (errors, warnings)
validate_inputs(pages, time, checkout, intent) ==
    [errors |-> Cond(pages < 0 \/ pages > 100, ErrPages)
                \o Cond(time < 0 \/ time > 3600, ErrTime),
     warnings |-> Cond(checkout = "Yes" /\ pages = 0, WarnNoPages)
                  \o Cond(checkout = "Yes" /\ time < 60, WarnQuick)
                  \o Cond(intent \in {"High", "Very High"} /\ pages < 3, WarnFewPages)
                  \o Cond(time < 10 /\ pages > 5, WarnBot)]

\* st.button(..., disabled=len(errors) > 0)
predict_disabled(errs) == Len(errs) > 0

-----------------------------------------------------------------------------
(* Quick-example scenarios: lines 119-141 *)

\* The session_state value each quick-example button stores (col1 .. col4).
\* button_scenario with the third button storing the second one's value.
button_scenario_swapped ==
    [col1 |-> "hot", col2 |-> "casual", col3 |-> "casual", col4 |-> "default"]

button_scenario ==
    [col1 |-> "hot", col2 |-> "casual", col3 |-> "cold", col4 |-> "default"]

ScenarioButtons == {"col1", "col2", "col3", "col4"}

\* The four `if colN.button(...)` statements, in order; pressed is the one
\* button (if any) whose press triggered this run.
press_buttons(scn, pressed) ==
    LET s1 == IF pressed = "col1" THEN button_scenario.col1 ELSE scn
        s2 == IF pressed = "col2" THEN button_scenario.col2 ELSE s1
        s3 == IF pressed = "col3" THEN button_scenario.col3 ELSE s2
        s4 == IF pressed = "col4" THEN button_scenario.col4 ELSE s3
    IN s4

\* scenarios: (pages, time, checkout, intent, visitor, bounce, exit)
scenarios ==
    [hot |-> <<25, 1200, "Yes", "Very High", "Returning Visitor",
               "Very Low (Stays, very interested)", "Very Low (Continues browsing)">>,
     casual |-> <<10, 300, "No", "Medium", "New Visitor",
                  "Medium (Unsure)", "Medium (May leave)">>,
     cold |-> <<3, 60, "No", "Very Low", "New Visitor",
                "Very High (Leaves quickly)", "Very High (Exits immediately)">>,
     default |-> <<10, 300, "No", "Very Low", "New Visitor",
                   "Very Low (Stays, very interested)", "Very Low (Continues browsing)">>]

\* st.session_state.get('scenario', 'default')
session_get(scn) == IF scn = Unset THEN "default" ELSE scn

\* scenarios.get(scenario, scenarios['default'])
scenario_defaults(scenario) ==
    IF scenario \in DOMAIN scenarios THEN scenarios[scenario] ELSE scenarios["default"]

-----------------------------------------------------------------------------
(* Input widgets: lines 156-217 *)

\* st.number_input(label, 0, 100, defaults[0])
PagesMin == 0
PagesMax == 100
\* st.slider(label, 0, 3600, defaults[1], step=5)
TimeMin == 0
TimeMax == 3600
TimeStep == 5

checkout_options == <<"No", "Yes">>
intent_options == <<"Very Low", "Low", "Medium", "High", "Very High">>
visitor_options == <<"New Visitor", "Returning Visitor">>

\* bounce_options with one label that is no key of bounce_map.
bounce_options_typo ==
    <<"Very Low (Stays, very interested)", "Low (Interested)", "Medium (Unsure)",
      "High (Likely exiting)", "Very High (Leaves quickly)">>

bounce_options ==
    <<"Very Low (Stays, very interested)", "Low (Interested)", "Medium (Unsure)",
      "High (Likely leaving)", "Very High (Leaves quickly)">>

exit_options ==
    <<"Very Low (Continues browsing)", "Low (Still browsing)", "Medium (May leave)",
      "High (Likely exiting)", "Very High (Exits immediately)">>

Range(seq) == {seq[i] : i \in 1..Len(seq)}

\* list.index(x), 0-based; -1 stands for the ValueError of an absent x.
Index(options, x) ==
    IF x \in Range(options)
    THEN (CHOOSE i \in 1..Len(options) :
             options[i] = x /\ \A j \in 1..(i - 1) : options[j] # x) - 1
    ELSE 0 - 1

\* The index= argument of each select box.
checkout_index(d) == IF d[3] = "No" THEN 0 ELSE 1
intent_index(d) == Index(intent_options, d[4])
visitor_index(d) == IF d[5] = "New Visitor" THEN 0 ELSE 1
bounce_index(d) == Index(bounce_options, d[6])
exit_index(d) == Index(exit_options, d[7])

\* Streamlit accepts a numeric default only inside [min, max] (and, for the
\* slider, on the step grid), and a select box index only inside the options.
numeric_defaults_ok(d) ==
    /\ d[1] >= PagesMin /\ d[1] <= PagesMax
    /\ d[2] >= TimeMin /\ d[2] <= TimeMax /\ (d[2] - TimeMin) % TimeStep = 0

index_defaults_ok(d) ==
    /\ intent_index(d) >= 0
    /\ bounce_index(d) >= 0
    /\ exit_index(d) >= 0

\* The value each widget shows when it is created with defaults d.
widget_defaults(d) ==
    [product_pages |-> d[1],
     product_time |-> d[2],
     checkout |-> checkout_options[checkout_index(d) + 1],
     intent_label |-> intent_options[intent_index(d) + 1],
     visitor |-> visitor_options[visitor_index(d) + 1],
     bounce_label |-> bounce_options[bounce_index(d) + 1],
     exit_label |-> exit_options[exit_index(d) + 1]]

\* The value a widget returns in a run.  A widget has no key, so it keeps the
\* value the user gave it only while it was on the last page with the same
\* default; otherwise it is a new widget showing its default.
widget_value(held, on_page, old, new) ==
    IF on_page /\ old = new THEN held ELSE new

widget_values(held, on_page, old_d, new_d) ==
    LET old == widget_defaults(old_d)
        new == widget_defaults(new_d)
    IN [product_pages |->
           widget_value(held.product_pages, on_page, old.product_pages, new.product_pages),
        product_time |->
           widget_value(held.product_time, on_page, old.product_time, new.product_time),
        checkout |-> widget_value(held.checkout, on_page, old.checkout, new.checkout),
        intent_label |->
           widget_value(held.intent_label, on_page, old.intent_label, new.intent_label),
        visitor |-> widget_value(held.visitor, on_page, old.visitor, new.visitor),
        bounce_label |->
           widget_value(held.bounce_label, on_page, old.bounce_label, new.bounce_label),
        exit_label |->
           widget_value(held.exit_label, on_page, old.exit_label, new.exit_label)]

-----------------------------------------------------------------------------
(* Feature encoding: lines 244-291 *)

\* intent_map with the score of "High" taken from the entry below it.
intent_map_shifted ==
    ("Very Low" :> 0) @@ ("Low" :> 30) @@ ("Medium" :> 80) @@ ("High" :> 200)
    @@ ("Very High" :> 200)

intent_map ==
    ("Very Low" :> 0) @@ ("Low" :> 30) @@ ("Medium" :> 80) @@ ("High" :> 140)
    @@ ("Very High" :> 200)

\* Rates in hundredths: 0.01, 0.1, 0.3, 0.6, 0.9.
bounce_map ==
    ("Very Low (Stays, very interested)" :> 1) @@ ("Low (Interested)" :> 10)
    @@ ("Medium (Unsure)" :> 30) @@ ("High (Likely leaving)" :> 60)
    @@ ("Very High (Leaves quickly)" :> 90)

exit_map ==
    ("Very Low (Continues browsing)" :> 1) @@ ("Low (Still browsing)" :> 10)
    @@ ("Medium (May leave)" :> 30) @@ ("High (Likely exiting)" :> 60)
    @@ ("Very High (Exits immediately)" :> 90)

\* The three dictionary lookups succeed (no KeyError).
lookups_ok(w) ==
    /\ w.intent_label \in DOMAIN intent_map
    /\ w.bounce_label \in DOMAIN bounce_map
    /\ w.exit_label \in DOMAIN exit_map

\* admin without its else branch value.
admin_always(checkout) == 3

admin(checkout) == IF checkout = "Yes" THEN 3 ELSE 0

admin_time(checkout) == IF checkout = "Yes" THEN 120 ELSE 0

visitor_type(visitor) ==
    IF visitor = "Returning Visitor" THEN "Returning_Visitor" ELSE "New_Visitor"

\* total_duration without the checkout time.
total_duration_no_admin(checkout, product_time) == product_time

total_duration(checkout, product_time) == admin_time(checkout) + product_time

engagement_ratio(product_pages, product_time) ==
    [num |-> product_pages, den |-> product_time + 1]

\* The one row of the DataFrame handed to the classifier.
feature_record(w) ==
    [Administrative |-> admin(w.checkout),
     Administrative_Duration |-> admin_time(w.checkout),
     Informational |-> 0,
     Informational_Duration |-> 0,
     ProductRelated |-> w.product_pages,
     ProductRelated_Duration |-> w.product_time,
     BounceRates |-> bounce_map[w.bounce_label],
     ExitRates |-> exit_map[w.exit_label],
     PageValues |-> intent_map[w.intent_label],
     SpecialDay |-> 0,
     Month |-> "May",
     OperatingSystems |-> 1,
     Browser |-> 1,
     Region |-> 1,
     TrafficType |-> 1,
     VisitorType |-> visitor_type(w.visitor),
     Weekend |-> FALSE,
     Engagement_Ratio |-> engagement_ratio(w.product_pages, w.product_time),
     Total_Duration |-> total_duration(w.checkout, w.product_time)]

-----------------------------------------------------------------------------
(* Inference: lines 294-300 *)

\* model.predict_proba(df)[0][1]; outcome is what the classifier does with the
\* record: it raises, or returns the probability outcome.p.  A model that was
\* never loaded (None) has no predict_proba.
predict_proba(model, outcome) ==
    IF model = "None" \/ outcome.raises
    THEN [ok |-> FALSE, prob |-> NoProb, log |-> <<"predict_proba">>]
    ELSE [ok |-> TRUE, prob |-> outcome.p, log |-> <<"predict_proba">>]

\* except Exception: st.error(...); st.stop()
on_predict_error == [shown |-> "prediction_error", stop |-> TRUE]

-----------------------------------------------------------------------------
(* Presentation: lines 306-471 *)

\* The chain with a strict first comparison.
result_banner_strict(p) ==
    IF p > 75 THEN "very likely"
    ELSE IF p >= 50 THEN "likely"
    ELSE IF p >= 25 THEN "unlikely"
    ELSE "very unlikely"

\* The if/elif chain choosing st.success / st.warning / st.error.
result_banner(p) ==
    IF p >= 75 THEN "very likely"
    ELSE IF p >= 50 THEN "likely"
    ELSE IF p >= 25 THEN "unlikely"
    ELSE "very unlikely"

\* new_prob without the min.
new_prob_unclamped(p, offset) == p + offset

\* new_prob = min(100, prob * 100 + offset)
new_prob(p, offset) == Min(100, p + offset)

\* The lines of the what-if expander, in order.
what_if(w, page_value, p) ==
    (IF w.checkout = "No" THEN <<[offset |-> 30, value |-> new_prob(p, 30)]>> ELSE <<>>)
    \o (IF w.product_time < 600
        THEN <<[offset |-> 15, value |-> new_prob(p, 15)]>> ELSE <<>>)
    \o (IF page_value < 140
        THEN <<[offset |-> 20, value |-> new_prob(p, 20)]>> ELSE <<>>)
    \o (IF w.product_pages < 15
        THEN <<[offset |-> 10, value |-> new_prob(p, 10)]>> ELSE <<>>)

ResultElements == {"gauge", "banner", "factors", "insights", "comparison", "whatif"}

-----------------------------------------------------------------------------
(* One run of the script, top to bottom *)

\* What a run leaves behind.  st: the state it starts from; pressed: the button
\* whose press triggered it ("none" for a rerun or a widget change); held: the
\* widget values after the user's change; env: what the world does in this run
\* (download, load_ok, predict).
Halted(st, lm, scn, held, shown, exc) ==
    [file_exists |-> lm.exists, model_cache |-> lm.cache, created |-> lm.created,
     session_scenario |-> scn, widgets |-> held,
     errors |-> <<>>, warnings |-> <<>>,
     out |-> shown, run_log |-> lm.log, exception |-> exc,
     df |-> NoRecord, prob |-> NoProb, banner |-> "none", whatif |-> <<>>]

ScriptRun(st, pressed, held, env) ==
    LET lm == load_model(st.model_cache, st.file_exists, env.download, env.load_ok)
        load_err == IF lm.ok THEN {} ELSE {on_load_error.shown}
        model == IF lm.ok THEN "model" ELSE "None"
        scn == press_buttons(st.session_scenario, pressed)
        scenario == session_get(scn)
        defaults == scenario_defaults(scenario)
        top == load_err \cup {"sidebar", "title", "scenario_buttons"}
    IN
    IF ~lm.ok /\ on_load_error.stop
    THEN Halted(st, lm, st.session_scenario, held, load_err, "none")
    ELSE IF ~numeric_defaults_ok(defaults)
    THEN Halted(st, lm, scn, held, top \cup {"exception"}, "StreamlitAPIException")
    ELSE IF ~index_defaults_ok(defaults)
    THEN Halted(st, lm, scn, held, top \cup {"exception"}, "ValueError")
    ELSE
    LET w == widget_values(held, st.on_page, scenario_defaults(session_get(st.session_scenario)),
                           defaults)
        v == validate_inputs(w.product_pages, w.product_time, w.checkout, w.intent_label)
        form == top \cup {"form"}
                \cup (IF Len(v.errors) > 0 THEN {"validation_errors"} ELSE {})
                \cup (IF Len(v.warnings) > 0 THEN {"warnings_expander"} ELSE {})
                \cup (IF predict_disabled(v.errors)
                      THEN {"predict_button_disabled"} ELSE {"predict_button"})
        base == [file_exists |-> lm.exists, model_cache |-> lm.cache, created |-> lm.created,
                 session_scenario |-> scn, widgets |-> w,
                 errors |-> v.errors, warnings |-> v.warnings,
                 out |-> form \cup {"footer"}, run_log |-> lm.log, exception |-> "none",
                 df |-> NoRecord, prob |-> NoProb, banner |-> "none", whatif |-> <<>>]
    IN
    IF pressed # "predict"
    THEN base
    ELSE IF ~lookups_ok(w)
    THEN [base EXCEPT !.out = form \cup {"exception"}, !.exception = "KeyError"]
    ELSE
    LET rec == feature_record(w)
        pp == predict_proba(model, env.predict)
        log == lm.log \o pp.log
    IN
    IF ~pp.ok /\ on_predict_error.stop
    THEN [base EXCEPT !.out = form \cup {on_predict_error.shown},
                      !.run_log = log, !.df = rec]
    ELSE IF ~pp.ok
    THEN [base EXCEPT !.out = form \cup {on_predict_error.shown, "exception"},
                      !.run_log = log, !.df = rec, !.exception = "NameError"]
    ELSE [base EXCEPT !.out = form \cup ResultElements \cup {"footer"},
                      !.run_log = log, !.df = rec, !.prob = pp.prob,
                      !.banner = result_banner(pp.prob),
                      !.whatif = what_if(w, rec.PageValues, pp.prob)]

-----------------------------------------------------------------------------
(* State machine *)

\* The process has started and no run has happened: nothing is cached, the
\* session is empty, no widget exists (widgets holds what a first render shows).
Init ==
    /\ file_exists \in BOOLEAN
    /\ model_cache = "empty"
    /\ loads = 0
    /\ session_scenario = Unset
    /\ last_pressed = "none"
    /\ widgets = widget_defaults(scenarios["default"])
    /\ errors = <<>>
    /\ warnings = <<>>
    /\ out = {}
    /\ run_log = <<>>
    /\ exception = "none"
    /\ df = NoRecord
    /\ prob = NoProb
    /\ banner = "none"
    /\ whatif = <<>>

Current ==
    [file_exists |-> file_exists, model_cache |-> model_cache,
     session_scenario |-> session_scenario, on_page |-> "form" \in out]

\* What the world may do in a run: the download and the load matter only when
\* load_model's body runs, the classifier's answer only when predict is pressed.
Downloads == IF file_exists THEN {"unused"} ELSE {"saved", "none", "raise"}
LoadOutcomes == IF model_cache = "model" THEN {TRUE} ELSE BOOLEAN
NoPredict == {[raises |-> FALSE, p |-> 0]}
PredictOutcomes(probs) ==
    {[raises |-> TRUE, p |-> 0]} \cup {[raises |-> FALSE, p |-> q] : q \in probs}

Apply(r) ==
    /\ loads + r.created <= MaxLoads
    /\ file_exists' = r.file_exists
    /\ model_cache' = r.model_cache
    /\ loads' = loads + r.created
    /\ session_scenario' = r.session_scenario
    /\ widgets' = r.widgets
    /\ errors' = r.errors
    /\ warnings' = r.warnings
    /\ out' = r.out
    /\ run_log' = r.run_log
    /\ exception' = r.exception
    /\ df' = r.df
    /\ prob' = r.prob
    /\ banner' = r.banner
    /\ whatif' = r.whatif

Run(pressed, held, predicts) ==
    \E d \in Downloads, l \in LoadOutcomes, q \in predicts :
        \E r \in {ScriptRun(Current, pressed, held,
                             [download |-> d, load_ok |-> l, predict |-> q])} :
            Apply(r)

\* The user opens the page or reruns it without touching anything.
Rerun ==
    /\ Run("none", widgets, NoPredict)
    /\ UNCHANGED last_pressed

\* The user presses one of the four quick-example buttons.
PressScenario ==
    /\ "scenario_buttons" \in out
    /\ \E b \in ScenarioButtons :
          /\ last_pressed' = b
          /\ Run(b, widgets, NoPredict)

\* The user changes one input widget; the widget offers only its own range.
Change(name, values) ==
    /\ "form" \in out
    /\ \E x \in values : Run("none", [widgets EXCEPT ![name] = x], NoPredict)
    /\ UNCHANGED last_pressed

ChangePages(samples) ==
    Change("product_pages", {x \in samples : PagesMin <= x /\ x <= PagesMax})
ChangeTime(samples) ==
    Change("product_time",
           {x \in samples : TimeMin <= x /\ x <= TimeMax /\ (x - TimeMin) % TimeStep = 0})
ChangeCheckout == Change("checkout", Range(checkout_options))
ChangeIntent(samples) == Change("intent_label", samples \cap Range(intent_options))
ChangeVisitor == Change("visitor", Range(visitor_options))
ChangeBounce(samples) == Change("bounce_label", samples \cap Range(bounce_options))
ChangeExit(samples) == Change("exit_label", samples \cap Range(exit_options))

\* The user presses the predict button, which the page offers enabled.
PressPredict(probs) ==
    /\ "predict_button" \in out
    /\ Run("predict", widgets, PredictOutcomes(probs))
    /\ UNCHANGED last_pressed

\* A session on the whole page, with every sampled answer of the classifier.
Next ==
    \/ Rerun
    \/ PressScenario
    \/ ChangePages(FewPages)
    \/ ChangeTime(FewTimes)
    \/ ChangeCheckout
    \/ ChangeIntent(Picked(intent_options, {4}))
    \/ ChangeVisitor
    \/ ChangeBounce(Picked(bounce_options, {4}))
    \/ ChangeExit(Picked(exit_options, {2}))
    \/ PressPredict(ProbSamples)

Spec == Init /\ [][Next]_vars

\* A session on the whole page, with every sampled value of the two numeric
\* widgets.
NextInputs ==
    \/ Rerun
    \/ PressScenario
    \/ ChangePages(PageSamples)
    \/ ChangeTime(TimeSamples)
    \/ ChangeCheckout
    \/ ChangeIntent(Picked(intent_options, {4}))
    \/ ChangeVisitor
    \/ ChangeBounce(Picked(bounce_options, {4}))
    \/ ChangeExit(Picked(exit_options, {2}))
    \/ PressPredict(OneProb)

SpecInputs == Init /\ [][NextInputs]_vars

\* A session on the whole page, with every entry of every select box.
NextLabels ==
    \/ Rerun
    \/ PressScenario
    \/ ChangePages(OnePage)
    \/ ChangeTime(OneTime)
    \/ ChangeCheckout
    \/ ChangeIntent(Range(intent_options))
    \/ ChangeVisitor
    \/ ChangeBounce(Range(bounce_options))
    \/ ChangeExit(Range(exit_options))
    \/ PressPredict(OneProb)

SpecLabels == Init /\ [][NextLabels]_vars

\* validate_inputs and the predict button on arbitrary arguments: the state a
\* run leaves when the four validated inputs are handed in raw, whatever the
\* widgets would have allowed, with the classifier already loaded.
InitValidate ==
    \E p \in RawPageSamples, t \in RawTimeSamples,
       c \in Range(checkout_options), i \in Range(intent_options) :
        \E r \in {ScriptRun([file_exists |-> TRUE, model_cache |-> "model",
                             session_scenario |-> Unset, on_page |-> TRUE],
                            "none",
                            [widget_defaults(scenarios["default"]) EXCEPT
                                !.product_pages = p, !.product_time = t,
                                !.checkout = c, !.intent_label = i],
                            [download |-> "unused", load_ok |-> TRUE,
                             predict |-> [raises |-> FALSE, p |-> 0]])} :
           /\ file_exists = r.file_exists
           /\ model_cache = r.model_cache
           /\ loads = 1
           /\ session_scenario = r.session_scenario
           /\ last_pressed = "none"
           /\ widgets = r.widgets
           /\ errors = r.errors
           /\ warnings = r.warnings
           /\ out = r.out
           /\ run_log = r.run_log
           /\ exception = r.exception
           /\ df = r.df
           /\ prob = r.prob
           /\ banner = r.banner
           /\ whatif = r.whatif

\* A session on the whole page that starts from such a state.
NextValidate ==
    \/ Rerun
    \/ PressScenario
    \/ ChangePages(OnePage)
    \/ ChangeTime(OneTime)
    \/ ChangeCheckout
    \/ ChangeIntent(Picked(intent_options, {4}))
    \/ ChangeVisitor
    \/ ChangeBounce(Picked(bounce_options, {4}))
    \/ ChangeExit(Picked(exit_options, {2}))
    \/ PressPredict(OneProb)

SpecValidate == InitValidate /\ [][NextValidate]_vars

-----------------------------------------------------------------------------
(* Properties *)

Built == df # NoRecord
Predicted == prob # NoProb
Count(log, call) == Cardinality({i \in 1..Len(log) : log[i] = call})
Offsets == {whatif[i].offset : i \in 1..Len(whatif)}

\* The scores and rates the lookup tables are documented to hold.
IntentScore(l) ==
    CASE l = "Very Low" -> 0 [] l = "Low" -> 30 [] l = "Medium" -> 80
      [] l = "High" -> 140 [] l = "Very High" -> 200
LevelOf(options, l) == Index(options, l) + 1
LevelRate(k) == CASE k = 1 -> 1 [] k = 2 -> 10 [] k = 3 -> 30 [] k = 4 -> 60 [] k = 5 -> 90

\* C1: every label the intent, bounce and exit select boxes offer has an entry
\* in its lookup table, and every Feature Record carries the fixed value of the
\* selected labels: PageValues 0/30/80/140/200 and rates 0.01/0.1/0.3/0.6/0.9
\* by level, whatever the other inputs are.
C1_LookupTablesFixed ==
    /\ \A l \in Range(intent_options) : l \in DOMAIN intent_map
    /\ \A l \in Range(bounce_options) : l \in DOMAIN bounce_map
    /\ \A l \in Range(exit_options) : l \in DOMAIN exit_map
    /\ Built =>
          /\ df.PageValues = IntentScore(widgets.intent_label)
          /\ df.BounceRates = LevelRate(LevelOf(bounce_options, widgets.bounce_label))
          /\ df.ExitRates = LevelRate(LevelOf(exit_options, widgets.exit_label))

C1_Witness ==
    /\ Built
    /\ widgets.intent_label = "High" /\ df.PageValues = 140
    /\ widgets.visitor = "Returning Visitor"
    /\ widgets.bounce_label = "Medium (Unsure)" /\ df.BounceRates = 30
    /\ widgets.exit_label = "Very High (Exits immediately)" /\ df.ExitRates = 90

\* C2: in every Feature Record, checkout "Yes" gives Administrative 3 and
\* Administrative_Duration 120, and checkout "No" gives 0 and 0.
C2_CheckoutFields ==
    Built =>
       /\ widgets.checkout = "Yes" =>
             df.Administrative = 3 /\ df.Administrative_Duration = 120
       /\ widgets.checkout = "No" =>
             df.Administrative = 0 /\ df.Administrative_Duration = 0

C2_Witness ==
    /\ Built /\ widgets.checkout = "No" /\ df.Administrative = 0
    /\ widgets.product_pages = 100 /\ widgets.intent_label = "Very High"

\* C3: in every Feature Record, Total_Duration is Administrative_Duration plus
\* ProductRelated_Duration: the browsing time, plus 120 exactly when checkout
\* was visited.
C3_TotalDuration ==
    Built =>
       /\ df.ProductRelated_Duration = widgets.product_time
       /\ df.Total_Duration = df.Administrative_Duration + df.ProductRelated_Duration
       /\ df.Total_Duration =
             widgets.product_time + (IF widgets.checkout = "Yes" THEN 120 ELSE 0)

C3_Witness ==
    /\ Built /\ widgets.checkout = "Yes" /\ widgets.product_time = 3600
    /\ widgets.product_pages = 0 /\ df.Total_Duration = 3720

\* C4: for every probability the classifier returns, exactly one banner is
\* shown: "very likely" iff p >= 0.75, "likely" iff 0.5 <= p < 0.75, "unlikely"
\* iff 0.25 <= p < 0.5, "very unlikely" iff p < 0.25.
C4_BannerBands ==
    Predicted =>
       /\ "banner" \in out
       /\ banner \in {"very likely", "likely", "unlikely", "very unlikely"}
       /\ banner = "very likely" <=> prob >= 75
       /\ banner = "likely" <=> (50 <= prob /\ prob < 75)
       /\ banner = "unlikely" <=> (25 <= prob /\ prob < 50)
       /\ banner = "very unlikely" <=> prob < 25

C4_Witness == prob = 75 /\ banner = "very likely"

\* C5: a run in which loading the model or the inference fails shows the error
\* and halts: nothing of the result is rendered, no probability stands in, and
\* the failed call was made once in that run.
LoadFailed ==
    (Count(run_log, "gdown.download") + Count(run_log, "joblib.load") > 0)
    /\ model_cache = "empty"
InferenceFailed == Count(run_log, "predict_proba") > 0 /\ ~Predicted

C5_FailureIsTerminal ==
    /\ LoadFailed =>
          /\ out = {"load_error"}
          /\ ~Predicted /\ ~Built /\ banner = "none" /\ whatif = <<>>
          /\ Count(run_log, "gdown.download") <= 1
          /\ Count(run_log, "joblib.load") <= 1
          /\ Count(run_log, "predict_proba") = 0
    /\ InferenceFailed =>
          /\ "prediction_error" \in out
          /\ out \cap (ResultElements \cup {"footer", "exception"}) = {}
          /\ banner = "none" /\ whatif = <<>>
          /\ Count(run_log, "predict_proba") = 1
    /\ out \cap ResultElements # {} => Predicted /\ out \cap {"load_error", "prediction_error"} = {}

C5_Witness ==
    /\ InferenceFailed /\ "prediction_error" \in out
    /\ widgets.product_pages = 25 /\ session_scenario = "hot"

\* C6: validate_inputs returns an error exactly when pages is outside [0,100]
\* or time is outside [0,3600]; the predict button is disabled exactly when
\* there is an error (warnings alone leave it enabled); so every Feature
\* Record is built from pages in [0,100] and time in [0,3600].
PagesInRange == 0 <= widgets.product_pages /\ widgets.product_pages <= 100
TimeInRange == 0 <= widgets.product_time /\ widgets.product_time <= 3600

C6_RangeNeverReachesEncoder ==
    /\ "form" \in out =>
          /\ (ErrPages \in Range(errors)) <=> ~PagesInRange
          /\ (ErrTime \in Range(errors)) <=> ~TimeInRange
          /\ Len(errors) > 0 <=> ~(PagesInRange /\ TimeInRange)
          /\ "predict_button_disabled" \in out <=> Len(errors) > 0
          /\ "predict_button" \in out <=> Len(errors) = 0
    /\ Built =>
          /\ PagesInRange /\ TimeInRange
          /\ 0 <= df.ProductRelated /\ df.ProductRelated <= 100
          /\ 0 <= df.ProductRelated_Duration /\ df.ProductRelated_Duration <= 3600

C6_Witness ==
    /\ widgets.product_pages = 101 /\ widgets.product_time = 5
    /\ widgets.checkout = "Yes"
    /\ errors = <<ErrPages>> /\ Len(warnings) > 0
    /\ "predict_button_disabled" \in out /\ ~Built

\* C7: the encoder never looks a label up that is absent from its table: every
\* label a run hands to the lookups is a key, and no run ends in a KeyError.
C7_NoAbsentKeyLookup ==
    /\ exception # "KeyError"
    /\ "form" \in out =>
          /\ widgets.intent_label \in DOMAIN intent_map
          /\ widgets.bounce_label \in DOMAIN bounce_map
          /\ widgets.exit_label \in DOMAIN exit_map
    /\ Built => lookups_ok(widgets)

C7_Witness ==
    /\ Built /\ widgets.bounce_label = "High (Likely leaving)"
    /\ widgets.exit_label = "Low (Still browsing)" /\ widgets.intent_label = "Low"

\* C8: the classifier is loaded once per process: a run downloads only when
\* the file is absent at load time, at most one instance is ever created, and
\* once load_model has succeeded no later run downloads or loads again.
C8_LoadedOnce ==
    [][/\ Count(run_log', "gdown.download") > 0 => ~file_exists
       /\ loads' <= 1
       /\ (model_cache' = "model") <=> (loads' = 1)
       /\ model_cache = "model" =>
             /\ model_cache' = "model"
             /\ loads' = loads
             /\ Count(run_log', "gdown.download") = 0
             /\ Count(run_log', "joblib.load") = 0]_vars

C8_Witness ==
    /\ model_cache = "model" /\ loads = 1
    /\ run_log = <<"predict_proba">> /\ Predicted

\* C9: each what-if value is the probability in percent plus its offset, at
\* most 100; +30 is shown iff checkout is "No", +15 iff time < 600, +20 iff
\* PageValues < 140, +10 iff pages < 15; every value lies in [0,100] and is
\* not below the probability in percent.
C9_WhatIfOffsets ==
    Predicted =>
       /\ \A i \in 1..Len(whatif) :
             /\ whatif[i].value =
                   (IF prob + whatif[i].offset > 100 THEN 100 ELSE prob + whatif[i].offset)
             /\ 0 <= whatif[i].value /\ whatif[i].value <= 100
             /\ whatif[i].value >= prob
       /\ Offsets \subseteq {30, 15, 20, 10}
       /\ Len(whatif) = Cardinality(Offsets)
       /\ 30 \in Offsets <=> widgets.checkout = "No"
       /\ 15 \in Offsets <=> widgets.product_time < 600
       /\ 20 \in Offsets <=> df.PageValues < 140
       /\ 10 \in Offsets <=> widgets.product_pages < 15

C9_Witness ==
    /\ prob = 82 /\ widgets.checkout = "No" /\ widgets.product_time = 595
    /\ widgets.intent_label = "High" /\ widgets.product_pages = 14
    /\ whatif = <<[offset |-> 30, value |-> 100], [offset |-> 15, value |-> 97],
                  [offset |-> 10, value |-> 92]>>

\* C10: the session scenario is the one of the button pressed most recently
\* (default when none was), and the defaults it selects suit the widgets:
\* pages in [0,100], time in [0,3600] on the step of 5, and every select box
\* default among its options, so no run fails creating a widget.
ButtonName(b) ==
    CASE b = "none" -> "default" [] b = "col1" -> "hot" [] b = "col2" -> "casual"
      [] b = "col3" -> "cold" [] b = "col4" -> "default"

C10_ScenarioDefaultsValid ==
    LET scenario == session_get(session_scenario)
        d == scenario_defaults(scenario)
    IN /\ scenario \in {"hot", "casual", "cold", "default"}
       /\ scenario = ButtonName(last_pressed)
       /\ 0 <= d[1] /\ d[1] <= 100
       /\ 0 <= d[2] /\ d[2] <= 3600 /\ d[2] % 5 = 0
       /\ d[3] \in Range(checkout_options)
       /\ d[4] \in Range(intent_options)
       /\ d[5] \in Range(visitor_options)
       /\ d[6] \in Range(bounce_options)
       /\ d[7] \in Range(exit_options)
       /\ exception \notin {"ValueError", "StreamlitAPIException"}

C10_Witness ==
    /\ last_pressed = "col3" /\ session_scenario = "cold"
    /\ "form" \in out /\ widgets.product_pages = 3 /\ widgets.product_time = 60
    /\ widgets.bounce_label = "Very High (Leaves quickly)"

====
